---- MODULE Spec2Model ----
(***************************************************************************)
(* A model of src/main.js, the browser client of a multiplayer viewport    *)
(* game: the world state store (players, avatars, local id), the camera    *)
(* (viewport), the keyboard input controller with its throttled movement   *)
(* loop, the handling of the server's messages, and the renderer with its  *)
(* animation loop, its avatar images and its movement trail.               *)
(*                                                                         *)
(* Every handler of the script runs to completion, so each is one action.  *)
(* Lengths are pixels.  The viewport origin is the only quantity the code  *)
(* computes with a division (width / 2): viewport.x and viewport.y are     *)
(* kept in HALF pixels, so that the value is exact for odd sizes.          *)
(***************************************************************************)
EXTENDS Integers, Sequences, FiniteSets, TLC

VARIABLES
    worldImageComplete, \* gameState.worldImage.complete
    window,             \* window.innerWidth / innerHeight
    ws,                 \* the WebSocket: "null" before connectToServer, else its readyState
    myPlayerId,         \* gameState.myPlayerId
    players,            \* gameState.players: id -> player
    playerOrder,        \* Object.keys(gameState.players): the ids in insertion order
    avatars,            \* gameState.avatars: name -> avatar definition
    viewport,           \* gameState.viewport (x, y in half pixels)
    movementTrails,     \* visualEffects.movementTrails: the particles' creation times
    lastDraw,           \* the last draw(): its avatar drawImage calls, and who made it throw
    loopAlive,          \* gameLoop is scheduled with requestAnimationFrame
    frameDue,           \* the time of the next display refresh
    pressedKeys,        \* pressedKeys, in key (insertion) order: <<[key, down]>>
    movementInterval,   \* the id of the poll timer, or "null"
    pollDue,            \* the time the next poll callback is due
    lastMovementTime,   \* lastMovementTime
    now,                \* Date.now(), in ms since the page was loaded
    sent,               \* what the last handler passed to ws.send
    lastEvent,          \* a digest of the event the last handler ran for
    holdStart,          \* the time the running movement loop was started
    moves,              \* the move messages sent since holdStart
    lastMoveAt          \* the time the last move message was sent: <<>> or <<time>>

vars == <<worldImageComplete, window, ws, myPlayerId, players, playerOrder, avatars,
          viewport, movementTrails, lastDraw, loopAlive, frameDue,
          pressedKeys, movementInterval, pollDue, lastMovementTime, now, sent,
          lastEvent, holdStart, moves, lastMoveAt>>

storeVars == <<myPlayerId, players, playerOrder, avatars>>
renderVars == <<lastDraw, loopAlive, frameDue>>
inputVars == <<pressedKeys, movementInterval, pollDue, lastMovementTime, holdStart, moves,
               lastMoveAt>>

NULL == "null"
TIMER == "timer"

Max(a, b) == IF a >= b THEN a ELSE b
Min(a, b) == IF a <= b THEN a ELSE b

(***************************************************************************)
(* Program constants.                                                      *)
(***************************************************************************)
worldWidth == 2048
worldHeight == 2048
MOVEMENT_INTERVAL == 150
maxTrailLength == 10
trailLifetime == 500
CULL_MARGIN == 50
POLL_INTERVAL == 50

movementKeys ==
    [k \in {"ArrowUp", "w", "W", "ArrowDown", "s", "S",
            "ArrowLeft", "a", "A", "ArrowRight", "d", "D"} |->
        CASE k \in {"ArrowUp", "w", "W"} -> "up"
          [] k \in {"ArrowDown", "s", "S"} -> "down"
          [] k \in {"ArrowLeft", "a", "A"} -> "left"
          [] OTHER -> "right"]

(***************************************************************************)
(* Bounds and the inputs the environment draws from.                       *)
(***************************************************************************)
MaxTime == 200          \* the clock stops here in SpecInput
MaxHoldTime == 1000     \* the clock stops here in SpecThrottle
MaxLate == 25           \* a poll callback runs at most this long after it is due
MaxFrames == 2          \* the longest frame sequence of an avatar
FrameInterval == 40     \* the time from one display refresh to the next
MaxTrailTime == 440     \* the clock stops here in SpecTrail, but for one pause

Ids == {"p1", "p2"}
AvatarNames == {"a1", "a2"}
Directions == {"north", "south", "east"}

\* Window sizes: a small one, one with odd extents, one larger than the world.
WindowSizes ==
    { [innerWidth |-> 800, innerHeight |-> 600],
      [innerWidth |-> 1281, innerHeight |-> 721],
      [innerWidth |-> 2560, innerHeight |-> 1440] }

\* Player positions: near the world's origin corner, its middle, its far corner.
\* The players reported here stand still (isMoving is read by the renderer alone).
Positions ==
    { [x |-> 10, y |-> 2040], [x |-> 1000, y |-> 1000], [x |-> 2047, y |-> 1500] }

\* The positions the server reports for each player.
PositionsOf(id) ==
    IF id = "p1" THEN Positions ELSE { pos \in Positions : pos.x = 1000 }

Player(id, pos) ==
    [ id |-> id, username |-> id, x |-> pos.x, y |-> pos.y,
      facing |-> IF pos.x < 1000 THEN "south" ELSE IF pos.x = 1000 THEN "east" ELSE "west",
      isMoving |-> FALSE,
      avatar |-> IF pos.x < 1000 THEN "a1" ELSE "a2",
      animationFrame |-> 0 ]

AllPlayers == UNION { { Player(id, pos) : pos \in PositionsOf(id) } : id \in Ids }

\* Partial maps id -> player, as the server sends them (key = player.id).
PlayerMaps ==
    UNION { { f \in [S -> AllPlayers] : \A id \in S : f[id].id = id } : S \in SUBSET Ids }

\* An avatar definition as it arrives: every frame a data: URI string.
AvatarDef(name) ==
    [ name |-> name, frames |-> [d \in Directions |-> <<"data">>] ]

\* The avatars of a snapshot; "a2" arrives later, with a player_joined.
AvatarMaps ==
    { [n \in {"a1"} |-> AvatarDef(n)] }

JoinOkMessages ==
    { [action |-> "join_game", success |-> TRUE, playerId |-> id, players |-> pm, avatars |-> am] :
        id \in Ids, pm \in PlayerMaps, am \in AvatarMaps }
JoinFailMessages ==
    { [action |-> "join_game", success |-> FALSE, error |-> "server full"] }
PlayerJoinedMessages ==
    { [action |-> "player_joined", player |-> p] : p \in AllPlayers }
    \cup { [action |-> "player_joined", player |-> p, avatar |-> AvatarDef(p.avatar)] :
             p \in AllPlayers }
PlayersMovedMessages ==
    { [action |-> "players_moved", players |-> pm] : pm \in PlayerMaps }
PlayerLeftMessages ==
    { [action |-> "player_left", playerId |-> id] : id \in Ids }
UnknownMessages ==
    { [action |-> "chat"] }

Messages ==
    JoinOkMessages \cup JoinFailMessages \cup PlayerJoinedMessages
    \cup PlayersMovedMessages \cup PlayerLeftMessages \cup UnknownMessages

\* event.data: the JSON text of a message, or text JSON.parse rejects.
Payloads ==
    { [json |-> TRUE, value |-> m] : m \in Messages } \cup { [json |-> FALSE] }

(***************************************************************************)
(* The inputs of SpecRender: a local player p1 in the middle of the world, *)
(* whose avatar "a1" has south and east frames and no north ones, and a    *)
(* player p2 on the left edge of what p1's 800 pixel wide window shows,    *)
(* whose avatar "a2" arrives with its player_joined.                       *)
(***************************************************************************)
RenderPlayer(id, x, facing, frame) ==
    [ id |-> id, username |-> id, x |-> x, y |-> 1000, facing |-> facing,
      isMoving |-> FALSE, avatar |-> IF id = "p1" THEN "a1" ELSE "a2",
      animationFrame |-> frame ]

RenderLocals == { RenderPlayer("p1", 1000, f, 0) : f \in {"south", "west", "north"} }

\* p2 one pixel beyond the margin, on the margin, and showing its second frame
RenderOthers ==
    { RenderPlayer("p2", 549, "east", 0), RenderPlayer("p2", 550, "east", 0),
      RenderPlayer("p2", 550, "east", 1) }

RenderAvatar(name) ==
    IF name = "a1"
    THEN [ name |-> name, frames |-> [d \in {"south", "east"} |-> <<"data">>] ]
    ELSE [ name |-> name, frames |-> [d \in {"east"} |-> <<"data", "text">>] ]

RenderJoinMessages ==
    { [action |-> "join_game", success |-> TRUE, playerId |-> "p1", players |-> pm,
       avatars |-> [n \in {"a1"} |-> RenderAvatar(n)]] :
        pm \in { [id \in {"p1"} |-> RenderPlayer("p1", 1000, "south", 0)],
                 [id \in {"p1", "p2"} |-> IF id = "p1" THEN RenderPlayer("p1", 1000, "south", 0)
                                          ELSE RenderPlayer("p2", 550, "east", 0)] } }
RenderJoinedMessages ==
    { [action |-> "player_joined", player |-> RenderPlayer("p2", 550, "east", 0),
       avatar |-> RenderAvatar("a2")] }
RenderMovedMessages ==
    { [action |-> "players_moved", players |-> [id \in {p.id} |-> p]] :
        p \in RenderLocals \cup RenderOthers }

RenderPayloads ==
    { [json |-> TRUE, value |-> m] :
        m \in RenderJoinMessages \cup RenderJoinedMessages \cup RenderMovedMessages }

RenderWindowSizes ==
    { [innerWidth |-> 800, innerHeight |-> 600], [innerWidth |-> 1281, innerHeight |-> 721] }

\* The inputs of SpecTrail: the local player alone, moving or standing still.
TrailPlayer(moving) ==
    [RenderPlayer("p1", 1000, "south", 0) EXCEPT !.isMoving = moving]

TrailMessages ==
    { [action |-> "join_game", success |-> TRUE, playerId |-> "p1",
       players |-> [id \in {"p1"} |-> TrailPlayer(FALSE)],
       avatars |-> [n \in {"a1"} |-> RenderAvatar(n)]] }
    \cup { [action |-> "players_moved", players |-> [id \in {"p1"} |-> TrailPlayer(moving)]] :
             moving \in BOOLEAN }

TrailPayloads == { [json |-> TRUE, value |-> m] : m \in TrailMessages }

\* The messages of SpecInput: they leave the store as it is.
InputPayloads ==
    { [json |-> TRUE, value |-> m] : m \in JoinFailMessages } \cup { [json |-> FALSE] }

\* Keys of the keyboard events: mapped keys and one that is not.
Keys == {"w", "s", "a", "x"}
StoreKeys == {"w"}

(***************************************************************************)
(* The state after the script has run: initGame() and the first            *)
(* gameLoop() frame, which draws nothing as the world image is not loaded. *)
(***************************************************************************)
Init ==
    /\ worldImageComplete = FALSE
    /\ window = [innerWidth |-> 800, innerHeight |-> 600]
    /\ ws = NULL
    /\ myPlayerId = NULL
    /\ players = [id \in {} |-> Player("p1", CHOOSE p \in Positions : TRUE)]
    /\ playerOrder = <<>>
    /\ avatars = [n \in {} |-> AvatarDef("a1")]
    /\ viewport = [x |-> 0, y |-> 0, width |-> 0, height |-> 0]
    /\ movementTrails = <<>>
    /\ lastDraw = [calls |-> <<>>, raised |-> NULL]
    /\ loopAlive = TRUE
    /\ frameDue = 0
    /\ pressedKeys = <<>>
    /\ movementInterval = NULL
    /\ pollDue = 0
    /\ lastMovementTime = 0
    /\ now = 0
    /\ sent = <<>>
    /\ lastEvent = [type |-> "init"]
    /\ holdStart = 0
    /\ moves = 0
    /\ lastMoveAt = <<>>

(***************************************************************************)
(* pressedKeys: an object whose own keys are kept in insertion order.      *)
(***************************************************************************)
\* pressedKeys[key], where undefined reads as false
IsPressed(pk, key) ==
    \E i \in 1..Len(pk) : pk[i].key = key /\ pk[i].down

\* pressedKeys[key] = down
SetKey(pk, key, down) ==
    IF \E i \in 1..Len(pk) : pk[i].key = key
    THEN [i \in 1..Len(pk) |-> IF pk[i].key = key THEN [key |-> key, down |-> down] ELSE pk[i]]
    ELSE Append(pk, [key |-> key, down |-> down])

\* Object.keys(pressedKeys).some(k => pressedKeys[k])
HasMovementKeys(pk) ==
    \E i \in 1..Len(pk) : pk[i].down

IsDown(e) == e.down /\ e.key \in DOMAIN movementKeys

\* the directions array sendMovementCommand builds
HeldDirections(pk) ==
    LET held == SelectSeq(pk, IsDown)
    IN  [i \in 1..Len(held) |-> movementKeys[held[i].key]]

IsHorizontal(d) == d \in {"left", "right"}

\* a getPrimaryDirection that forgets the horizontal priority
getPrimaryDirection_First(directions) ==
    directions[1]

getPrimaryDirection(directions) ==
    IF \E i \in 1..Len(directions) : IsHorizontal(directions[i])
    THEN SelectSeq(directions, IsHorizontal)[1]
    ELSE directions[1]

\* a sendMoveCommand that sends its message twice
sendMoveCommand_Twice(w, direction) ==
    IF w # "OPEN" THEN <<>>
    ELSE << [action |-> "move", direction |-> direction],
            [action |-> "move", direction |-> direction] >>

\* what sendMoveCommand(direction) passes to ws.send
sendMoveCommand(w, direction) ==
    IF w # "OPEN" THEN <<>> ELSE << [action |-> "move", direction |-> direction] >>

\* what sendMovementCommand() passes to ws.send
sendMovementCommand(w, pk) ==
    LET directions == HeldDirections(pk)
    IN  IF w # "OPEN" THEN <<>>
        ELSE IF Len(directions) = 0 THEN <<>>
        ELSE IF Len(directions) > 1 THEN sendMoveCommand(w, getPrimaryDirection(directions))
        ELSE sendMoveCommand(w, directions[1])

\* a stopMovementLoop that leaves the timer running
stopMovementLoop_Keep(interval) ==
    interval

\* movementInterval after stopMovementLoop()
stopMovementLoop(interval) ==
    NULL

\* the time of the last move message, after a handler that sent msgs at time t
MoveTime(last, msgs, t) ==
    IF \E i \in 1..Len(msgs) : msgs[i].action = "move" THEN <<t>> ELSE last

\* what sendStopCommand() passes to ws.send
sendStopCommand(w) ==
    IF w # "OPEN" THEN <<>> ELSE << [action |-> "stop"] >>

(***************************************************************************)
(* The camera.                                                             *)
(***************************************************************************)
\* a centerViewportOnMyAvatar that clamps at 0 only
centerViewportOnMyAvatar_NoUpper(my, pl, vp) ==
    IF my = NULL \/ my \notin DOMAIN pl THEN vp
    ELSE [vp EXCEPT !.x = Max(0, 2 * pl[my].x - vp.width),
                    !.y = Max(0, 2 * pl[my].y - vp.height)]

\* viewport.x and .y in half pixels: 2 * (player.x - width / 2) = 2 * player.x - width
centerViewportOnMyAvatar(my, pl, vp) ==
    IF my = NULL \/ my \notin DOMAIN pl THEN vp
    ELSE LET myPlayer == pl[my]
             targetX == 2 * myPlayer.x - vp.width
             targetY == 2 * myPlayer.y - vp.height
             clampedX == Max(0, Min(targetX, 2 * (worldWidth - vp.width)))
             clampedY == Max(0, Min(targetY, 2 * (worldHeight - vp.height)))
         IN  [vp EXCEPT !.x = clampedX, !.y = clampedY]

\* the part of setupCanvas() that writes the viewport
setupCanvas(vp, win) ==
    [vp EXCEPT !.width = win.innerWidth, !.height = win.innerHeight]

(***************************************************************************)
(* The renderer, as far as it changes state or can be observed: the trail  *)
(* of the local player, the avatar drawImage calls, and the player at      *)
(* which a draw() threw.  A particle's x and y are drawn and never read    *)
(* back; the model keeps its creation time.  The canvas has the viewport's *)
(* size whenever draw() gets past its guard.  A frame slot is "data" (a    *)
(* data: URI string), "text" (any other string), "loading" (an Image that  *)
(* is being decoded) or "complete" (an Image that is).                     *)
(***************************************************************************)
\* an addMovementTrail that never drops a particle
addMovementTrail_Unbounded(trails, t) ==
    Append(trails, t)

\* addMovementTrail(x, y)
addMovementTrail(trails, t) ==
    LET pushed == Append(trails, t)
    IN  IF Len(pushed) > maxTrailLength THEN Tail(pushed) ELSE pushed

\* what drawMovementTrails() leaves of the trails
drawMovementTrails(trails, t) ==
    LET Young(created) == t - created < trailLifetime
    IN  SelectSeq(trails, Young)

\* drawPlayer(player) gets past its culling test (screen position in half pixels)
InView(player, vp) ==
    LET screenX == 2 * player.x - vp.x
        screenY == 2 * player.y - vp.y
    IN  ~ \/ screenX < -2 * CULL_MARGIN
          \/ screenX > 2 * (vp.width + CULL_MARGIN)
          \/ screenY < -2 * CULL_MARGIN
          \/ screenY > 2 * (vp.height + CULL_MARGIN)

\* a test that takes every frame for drawable
IsDrawable_Any(frameImage) ==
    TRUE

\* frameImage && frameImage.complete: strings have no .complete
IsDrawable(frameImage) ==
    frameImage = "complete"

\* the direction whose frames drawPlayer reads: west uses the east frames
FrameDirection(player) ==
    IF player.facing = "west" THEN "east" ELSE player.facing

\* drawPlayer(player), on the results acc of the draw() so far
drawPlayer(acc, player, avs, vp, my, t) ==
    IF player.avatar \notin DOMAIN avs THEN acc
    ELSE IF ~InView(player, vp) THEN acc
    ELSE LET avatar == avs[player.avatar]
             trailed == IF player.id = my /\ player.isMoving
                        THEN [acc EXCEPT !.trails = addMovementTrail(@, t)]
                        ELSE acc
             direction == FrameDirection(player)
         IN  IF direction \notin DOMAIN avatar.frames
             THEN \* frames is undefined: reading its element throws a TypeError
                  [trailed EXCEPT !.raised = player.id]
             ELSE LET frames == avatar.frames[direction]
                      index == player.animationFrame + 1
                  IN  IF index \notin 1..Len(frames) THEN trailed
                      ELSE IF ~IsDrawable(frames[index]) THEN trailed
                      ELSE [trailed EXCEPT
                              !.calls = Append(@, [id |-> player.id, image |-> frames[index]])]

\* drawPlayers(): Object.values(gameState.players).forEach(drawPlayer), up to a throw
RECURSIVE drawPlayers(_, _, _, _, _, _, _)
drawPlayers(acc, order, pl, avs, vp, my, t) ==
    IF order = <<>> \/ acc.raised # NULL THEN acc
    ELSE drawPlayers(drawPlayer(acc, pl[Head(order)], avs, vp, my, t),
                     Tail(order), pl, avs, vp, my, t)

\* draw(): the trails it leaves, its avatar drawImage calls, the player it threw at
draw(complete, trails, order, pl, avs, vp, my, t) ==
    IF ~complete THEN [trails |-> trails, calls |-> <<>>, raised |-> NULL]
    ELSE drawPlayers([trails |-> drawMovementTrails(trails, t), calls |-> <<>>, raised |-> NULL],
                     order, pl, avs, vp, my, t)

(***************************************************************************)
(* The store.                                                              *)
(***************************************************************************)
\* a test that takes every frame slot for raw data
IsRawData_Any(slot) ==
    TRUE

\* typeof base64Data === 'string' && base64Data.startsWith('data:')
IsRawData(slot) ==
    slot = "data"

\* preloadAvatarImages(): every data: string becomes an Image that is loading
preloadAvatarImages(avs) ==
    [n \in DOMAIN avs |->
        [avs[n] EXCEPT !.frames =
            [d \in DOMAIN avs[n].frames |->
                [i \in 1..Len(avs[n].frames[d]) |->
                    IF IsRawData(avs[n].frames[d][i]) THEN "loading" ELSE avs[n].frames[d][i]]]]]

\* the frame slots preloadAvatarImages() would make an Image for
RawSlots(avs) ==
    { <<n, d, i>> \in UNION { UNION { { <<n, d, i>> : i \in 1..Len(avs[n].frames[d]) } :
                                       d \in DOMAIN avs[n].frames } : n \in DOMAIN avs } :
        IsRawData(avs[n].frames[d][i]) }

\* the ids of a set in the order the server lists them
IdOrder == <<"p1", "p2">>

KeyOrder(ids) ==
    LET In(id) == id \in ids IN SelectSeq(IdOrder, In)

\* Object.keys(gameState.players) after a message: a snapshot brings its own
\* order; other messages keep the keys that stay and append the new ones
KeysAfter(message, order, old, new) ==
    IF message.action = "join_game" /\ message.success
    THEN KeyOrder(DOMAIN new)
    ELSE LET Stays(id) == id \in DOMAIN new
         IN  SelectSeq(order, Stays) \o KeyOrder(DOMAIN new \ DOMAIN old)

\* an Object.assign that replaces the target by the source
ObjectAssign_Replace(target, source) ==
    source

\* Object.assign(target, source)
ObjectAssign(target, source) ==
    [id \in DOMAIN target \cup DOMAIN source |->
        IF id \in DOMAIN source THEN source[id] ELSE target[id]]

\* target[key] = value
ObjectSet(target, key, value) ==
    [id \in DOMAIN target \cup {key} |-> IF id = key THEN value ELSE target[id]]

\* delete target[key]
ObjectDelete(target, key) ==
    [id \in DOMAIN target \ {key} |-> target[id]]

\* The ids of the players a message names.
NamedIds(m) ==
    CASE m.action = "join_game" /\ m.success -> DOMAIN m.players
      [] m.action = "player_joined" -> {m.player.id}
      [] m.action = "players_moved" -> DOMAIN m.players
      [] m.action = "player_left" -> {m.playerId}
      [] OTHER -> {}

MessageDigest(data) ==
    IF data.json
    THEN [type |-> "message", action |-> data.value.action,
          success |-> (data.value.action = "join_game" => data.value.success),
          ids |-> NamedIds(data.value)]
    ELSE [type |-> "message", action |-> "<undecodable>", success |-> FALSE, ids |-> {}]

NoInput == UNCHANGED inputVars
NoClock == UNCHANGED now

(***************************************************************************)
(* handleServerMessage(message), one definition per case of the switch.    *)
(***************************************************************************)
\* a join_game case that merges the snapshot into the store
JoinGame_Merge(message) ==
    IF message.success
    THEN /\ myPlayerId' = message.playerId
         /\ players' = [id \in DOMAIN players \cup DOMAIN message.players |->
                            IF id \in DOMAIN message.players THEN message.players[id]
                            ELSE players[id]]
         /\ avatars' = preloadAvatarImages(
                            [n \in DOMAIN avatars \cup DOMAIN message.avatars |->
                                IF n \in DOMAIN message.avatars THEN message.avatars[n]
                                ELSE avatars[n]])
         /\ viewport' = centerViewportOnMyAvatar(message.playerId, players', viewport)
    ELSE UNCHANGED <<myPlayerId, players, avatars, viewport>>

\* a join_game case that empties the store when the join fails
JoinGame_ResetOnFailure(message) ==
    IF message.success
    THEN /\ myPlayerId' = message.playerId
         /\ players' = message.players
         /\ avatars' = preloadAvatarImages(message.avatars)
         /\ viewport' = centerViewportOnMyAvatar(message.playerId, message.players, viewport)
    ELSE /\ myPlayerId' = NULL
         /\ players' = [id \in {} |-> players[id]]
         /\ UNCHANGED <<avatars, viewport>>

JoinGame(message) ==
    IF message.success
    THEN /\ myPlayerId' = message.playerId
         /\ players' = message.players
         /\ avatars' = preloadAvatarImages(message.avatars)
         /\ viewport' = centerViewportOnMyAvatar(message.playerId, message.players, viewport)
    ELSE UNCHANGED <<myPlayerId, players, avatars, viewport>>

PlayerJoined(message) ==
    /\ players' = ObjectSet(players, message.player.id, message.player)
    /\ avatars' = IF "avatar" \in DOMAIN message
                  THEN preloadAvatarImages(ObjectSet(avatars, message.avatar.name, message.avatar))
                  ELSE avatars
    /\ UNCHANGED <<myPlayerId, viewport>>

PlayersMoved(message) ==
    /\ players' = ObjectAssign(players, message.players)
    /\ viewport' = IF myPlayerId \in DOMAIN message.players /\ ~HasMovementKeys(pressedKeys)
                   THEN centerViewportOnMyAvatar(myPlayerId, players', viewport)
                   ELSE viewport
    /\ UNCHANGED <<myPlayerId, avatars>>

PlayerLeft(message) ==
    /\ players' = ObjectDelete(players, message.playerId)
    /\ UNCHANGED <<myPlayerId, avatars, viewport>>

\* a handleServerMessage whose default case empties the player mapping
handleServerMessage_ResetOnUnknown(message) ==
    CASE message.action = "join_game" -> JoinGame(message)
      [] message.action = "player_joined" -> PlayerJoined(message)
      [] message.action = "players_moved" -> PlayersMoved(message)
      [] message.action = "player_left" -> PlayerLeft(message)
      [] OTHER -> /\ players' = [id \in {} |-> players[id]]
                  /\ UNCHANGED <<myPlayerId, avatars, viewport>>

handleServerMessage(message) ==
    CASE message.action = "join_game" -> JoinGame(message)
      [] message.action = "player_joined" -> PlayerJoined(message)
      [] message.action = "players_moved" -> PlayersMoved(message)
      [] message.action = "player_left" -> PlayerLeft(message)
      [] OTHER -> UNCHANGED <<myPlayerId, players, avatars, viewport>>

(***************************************************************************)
(* The handlers.                                                           *)
(***************************************************************************)
\* worldImage 'load': setupCanvas(); connectToServer()
WorldImageLoad ==
    /\ ~worldImageComplete
    /\ worldImageComplete' = TRUE
    /\ viewport' = setupCanvas(viewport, window)
    /\ LET drawn == draw(TRUE, movementTrails, playerOrder, players, avatars, viewport',
                          myPlayerId, now)
       IN  /\ movementTrails' = drawn.trails
           /\ lastDraw' = [calls |-> drawn.calls, raised |-> drawn.raised]
    /\ ws' = "CONNECTING"
    /\ sent' = <<>>
    /\ lastEvent' = [type |-> "load"]
    /\ UNCHANGED <<window, storeVars, loopAlive, frameDue>>
    /\ NoInput /\ NoClock

\* window 'resize': setupCanvas()
Resize(size) ==
    /\ window' = size
    /\ viewport' = setupCanvas(viewport, size)
    /\ LET drawn == draw(worldImageComplete, movementTrails, playerOrder, players, avatars,
                          viewport', myPlayerId, now)
       IN  /\ movementTrails' = drawn.trails
           /\ lastDraw' = [calls |-> drawn.calls, raised |-> drawn.raised]
    /\ sent' = <<>>
    /\ lastEvent' = [type |-> "resize"]
    /\ UNCHANGED <<worldImageComplete, ws, storeVars, loopAlive, frameDue>>
    /\ NoInput /\ NoClock

\* ws.onopen
WsOpen ==
    /\ ws = "CONNECTING"
    /\ ws' = "OPEN"
    /\ sent' = << [action |-> "join_game", username |-> "Tim"] >>
    /\ lastEvent' = [type |-> "open"]
    /\ UNCHANGED <<worldImageComplete, window, storeVars, viewport, movementTrails, renderVars>>
    /\ NoInput /\ NoClock

\* ws.onclose: the channel is gone, nothing is retried
WsClose ==
    /\ ws \in {"CONNECTING", "OPEN"}
    /\ ws' = "CLOSED"
    /\ sent' = <<>>
    /\ lastEvent' = [type |-> "close"]
    /\ UNCHANGED <<worldImageComplete, window, storeVars, viewport, movementTrails, renderVars>>
    /\ NoInput /\ NoClock

\* ws.onmessage: JSON.parse(event.data), then handleServerMessage; a throw is caught
WsMessage(data) ==
    /\ ws = "OPEN"
    /\ IF data.json
       THEN handleServerMessage(data.value)
       ELSE UNCHANGED <<myPlayerId, players, avatars, viewport>>
    /\ sent' = <<>>
    /\ lastEvent' = MessageDigest(data)
    /\ playerOrder' = IF data.json THEN KeysAfter(data.value, playerOrder, players, players')
                                 ELSE playerOrder
    /\ UNCHANGED <<worldImageComplete, window, ws, movementTrails, renderVars>>
    /\ NoInput /\ NoClock

\* document 'keydown'
KeyDown(key) ==
    /\ lastEvent' = [type |-> "keydown", key |-> key]
    /\ IF key \in DOMAIN movementKeys /\ ~IsPressed(pressedKeys, key)
       THEN /\ pressedKeys' = SetKey(pressedKeys, key, TRUE)
            /\ IF movementInterval # NULL
               THEN \* startMovementLoop(): already running
                    /\ sent' = <<>>
                    /\ UNCHANGED <<movementInterval, pollDue, lastMovementTime, holdStart, moves,
                                   lastMoveAt>>
               ELSE /\ sent' = sendMovementCommand(ws, pressedKeys')
                    /\ lastMovementTime' = now
                    /\ movementInterval' = TIMER
                    /\ pollDue' = now + POLL_INTERVAL
                    /\ holdStart' = now
                    /\ moves' = Len(sent')
                    /\ lastMoveAt' = MoveTime(lastMoveAt, sent', now)
       ELSE /\ sent' = <<>>
            /\ NoInput
    /\ UNCHANGED <<worldImageComplete, window, ws, storeVars, viewport, movementTrails, renderVars>>
    /\ NoClock

\* document 'keyup'
KeyUp(key) ==
    /\ lastEvent' = [type |-> "keyup", key |-> key]
    /\ IF key \in DOMAIN movementKeys
       THEN /\ pressedKeys' = SetKey(pressedKeys, key, FALSE)
            /\ IF ~HasMovementKeys(pressedKeys')
               THEN \* stopMovementLoop(); sendStopCommand()
                    /\ movementInterval' = stopMovementLoop(movementInterval)
                    /\ sent' = sendStopCommand(ws)
               ELSE /\ sent' = <<>>
                    /\ UNCHANGED movementInterval
            /\ UNCHANGED <<pollDue, lastMovementTime, holdStart, moves, lastMoveAt>>
       ELSE /\ sent' = <<>>
            /\ NoInput
    /\ UNCHANGED <<worldImageComplete, window, ws, storeVars, viewport, movementTrails, renderVars>>
    /\ NoClock

\* gameLoop(): draw(), then requestAnimationFrame(gameLoop) unless draw() threw
GameLoop ==
    /\ loopAlive
    /\ LET drawn == draw(worldImageComplete, movementTrails, playerOrder, players, avatars,
                          viewport, myPlayerId, now)
       IN  /\ movementTrails' = drawn.trails
           /\ lastDraw' = [calls |-> drawn.calls, raised |-> drawn.raised]
           /\ loopAlive' = (drawn.raised = NULL)
    /\ frameDue' = now + FrameInterval
    /\ sent' = <<>>
    /\ lastEvent' = [type |-> "frame"]
    /\ UNCHANGED <<worldImageComplete, window, ws, storeVars, viewport>>
    /\ NoInput /\ NoClock

\* the decode of the Image in a frame slot completes
ImageLoad(name, direction, index) ==
    /\ name \in DOMAIN avatars
    /\ direction \in DOMAIN avatars[name].frames
    /\ index \in 1..Len(avatars[name].frames[direction])
    /\ avatars[name].frames[direction][index] = "loading"
    /\ avatars' = [avatars EXCEPT ![name].frames[direction][index] = "complete"]
    /\ sent' = <<>>
    /\ lastEvent' = [type |-> "imageload"]
    /\ UNCHANGED <<worldImageComplete, window, ws, myPlayerId, players, playerOrder, viewport,
                   movementTrails, renderVars>>
    /\ NoInput /\ NoClock

\* a throttle test that lets every poll through
IntervalElapsed_Always(t, last) ==
    TRUE

\* now - lastMovementTime >= MOVEMENT_INTERVAL
IntervalElapsed(t, last) ==
    t - last >= MOVEMENT_INTERVAL

\* the setInterval callback of startMovementLoop()
MovementTick ==
    /\ movementInterval # NULL
    /\ now >= pollDue
    /\ pollDue' = pollDue + POLL_INTERVAL
    /\ lastEvent' = [type |-> "poll"]
    /\ IF IntervalElapsed(now, lastMovementTime)
       THEN /\ sent' = sendMovementCommand(ws, pressedKeys)
            /\ lastMovementTime' = now
       ELSE /\ sent' = <<>>
            /\ UNCHANGED lastMovementTime
    /\ moves' = moves + Len(sent')
    /\ lastMoveAt' = MoveTime(lastMoveAt, sent', now)
    /\ UNCHANGED <<pressedKeys, movementInterval, holdStart>>
    /\ UNCHANGED <<worldImageComplete, window, ws, storeVars, viewport, movementTrails, renderVars>>
    /\ NoClock

\* time passes; a due poll callback is run before it is MaxLate late
Advance(d, limit) ==
    /\ now + d <= limit
    /\ movementInterval # NULL => now + d <= pollDue + MaxLate
    /\ now' = now + d
    /\ sent' = <<>>
    /\ lastEvent' = [type |-> "clock"]
    /\ UNCHANGED <<worldImageComplete, window, ws, storeVars, viewport, movementTrails, renderVars>>
    /\ NoInput

(***************************************************************************)
(* Specifications.                                                         *)
(***************************************************************************)
\* the store and the camera under messages, key events and resizes
Next ==
    \/ WorldImageLoad
    \/ WsOpen
    \/ WsClose
    \/ \E size \in WindowSizes : Resize(size)
    \/ \E data \in Payloads : WsMessage(data)
    \/ \E key \in StoreKeys : KeyDown(key)
    \/ \E key \in StoreKeys : KeyUp(key)

Spec == Init /\ [][Next]_vars

\* the input controller on a 50 ms clock
NextInput ==
    \/ WorldImageLoad
    \/ WsOpen
    \/ WsClose
    \/ \E data \in InputPayloads : WsMessage(data)
    \/ \E key \in Keys : KeyDown(key)
    \/ \E key \in Keys : KeyUp(key)
    \/ MovementTick
    \/ Advance(POLL_INTERVAL, MaxTime)

SpecInput == Init /\ [][NextInput]_vars

\* one key, pressed on an open channel, on a 25 ms clock; poll callbacks run up
\* to MaxLate late
ClockSteps == {25}

NextThrottle ==
    \/ WorldImageLoad
    \/ WsOpen
    \/ ws = "OPEN" /\ KeyDown("w")
    \/ KeyUp("w")
    \/ MovementTick
    \/ ws = "OPEN" /\ \E d \in ClockSteps : Advance(d, MaxHoldTime)

SpecThrottle == Init /\ [][NextThrottle]_vars

\* the renderer under messages, image decodes, frames and resizes
NextRender ==
    \/ WorldImageLoad
    \/ WsOpen
    \/ \E data \in RenderPayloads : WsMessage(data)
    \/ \E name \in AvatarNames, direction \in Directions, index \in 1..MaxFrames :
          ImageLoad(name, direction, index)
    \/ \E size \in RenderWindowSizes : Resize(size)
    \/ GameLoop

SpecRender == Init /\ [][NextRender]_vars

\* the trail of the local player: a frame at every display refresh, but for
\* pauses (a hidden page) of the trail's lifetime
NextTrail ==
    \/ WorldImageLoad
    \/ WsOpen
    \/ \E data \in TrailPayloads : WsMessage(data)
    \/ now >= frameDue /\ GameLoop
    \/ now < frameDue /\ Advance(FrameInterval, MaxTrailTime)
    \/ Advance(trailLifetime, MaxTrailTime + trailLifetime)

SpecTrail == Init /\ [][NextTrail]_vars

(***************************************************************************)
(* The input controller's properties.                                      *)
(***************************************************************************)
\* how many messages of a kind a handler sent
Count(msgs, action) ==
    Cardinality({ i \in 1..Len(msgs) : msgs[i].action = action })

\* the logical directions of the keys tracked as held
HeldSet(pk) ==
    { movementKeys[pk[i].key] : i \in { j \in 1..Len(pk) : pk[j].down } }

\* the direction of the first held key in the key order of pressedKeys
FirstHeld(pk) ==
    LET i == CHOOSE j \in 1..Len(pk) : pk[j].down /\ \A l \in 1..(j - 1) : ~pk[l].down
    IN  movementKeys[pk[i].key]

\* C1: on an open channel a handler sends one stop when it takes the held keys
\* from some to none, and no stop in any other case.
C1_StopPerIdleTransition ==
    [][ ws = "OPEN" =>
          Count(sent', "stop") =
             IF HasMovementKeys(pressedKeys) /\ ~HasMovementKeys(pressedKeys') THEN 1 ELSE 0
      ]_vars

\* C5: every move message carries a held horizontal direction if one is held,
\* and else the first held direction in the order of movementKeys, up before
\* down; a handler sends at most one move.
C5_MappingOrder ==
    /\ Count(sent, "move") <= 1
    /\ \A i \in 1..Len(sent) : sent[i].action = "move" =>
          LET held == HeldSet(pressedKeys)
          IN  /\ held # {}
              /\ IF held \cap {"left", "right"} # {}
                 THEN sent[i].direction \in held \cap {"left", "right"}
                 ELSE sent[i].direction = (IF "up" \in held THEN "up" ELSE "down")

\* C5, amended: every move message carries a held horizontal direction if one
\* is held, and else the direction of the first held key in the key order of
\* pressedKeys (the order in which the keys were first pressed or released);
\* a handler sends at most one move.
C5_KeyOrder ==
    /\ Count(sent, "move") <= 1
    /\ \A i \in 1..Len(sent) : sent[i].action = "move" =>
          LET held == HeldSet(pressedKeys)
          IN  /\ held # {}
              /\ IF held \cap {"left", "right"} # {}
                 THEN sent[i].direction \in held \cap {"left", "right"}
                 ELSE sent[i].direction = FirstHeld(pressedKeys)

\* a poll sends "down" while up and down are both held, and "left" while up,
\* pressed first, and left are held
C5_Witness ==
    /\ lastEvent.type = "poll"
    /\ Count(sent, "move") = 1
    /\ \/ HeldSet(pressedKeys) = {"up", "down"} /\ sent[1].direction = "down"
       \/ HeldSet(pressedKeys) = {"up", "left"} /\ FirstHeld(pressedKeys) = "up"

\* the time the movement loop has been running
HoldTime == now - holdStart

\* C6: with a key held for T >= 150 ms the number of move messages sent during
\* the hold is floor(T / 150) + 1, give or take one (counted when no poll
\* callback is waiting to run).
C6_ExactCount ==
    (movementInterval # NULL /\ HoldTime >= MOVEMENT_INTERVAL /\ now < pollDue) =>
        /\ moves >= (HoldTime \div MOVEMENT_INTERVAL + 1) - 1
        /\ moves <= (HoldTime \div MOVEMENT_INTERVAL + 1) + 1

\* C6, amended: with a key held for T >= 150 ms the number of move messages
\* sent during the hold is at least one and at most floor(T / 150) + 1.
C6_AtMost ==
    (movementInterval # NULL /\ HoldTime >= MOVEMENT_INTERVAL) =>
        /\ moves >= 1
        /\ moves <= HoldTime \div MOVEMENT_INTERVAL + 1

\* a hold of 450 ms or more whose polls all ran in time: four or more moves,
\* far fewer than the polls
C6_Witness ==
    /\ movementInterval # NULL
    /\ HoldTime >= 3 * MOVEMENT_INTERVAL
    /\ moves = HoldTime \div MOVEMENT_INTERVAL + 1
    /\ lastEvent.type = "poll"

(***************************************************************************)
(* The store's and the camera's properties.                                *)
(***************************************************************************)
\* event.data for a message the server encoded
Json(m) == [json |-> TRUE, value |-> m]

\* the local player is known and stored
HasLocal == myPlayerId # NULL /\ myPlayerId \in DOMAIN players

\* v clamped to lo..hi, the lower end winning when the range is empty
Clamped(v, lo, hi) ==
    IF v <= lo THEN lo ELSE IF v >= hi THEN (IF hi >= lo THEN hi ELSE lo) ELSE v

\* the origin (in half pixels) that centres an extent of the viewport on p
CentredOrigin(p, extent, world) ==
    Clamped(2 * p - extent, 0, 2 * (world - extent))

\* the viewport's origin is centred on the stored local player
IsCentred(vp, pl, my) ==
    /\ vp.x = CentredOrigin(pl[my].x, vp.width, worldWidth)
    /\ vp.y = CentredOrigin(pl[my].y, vp.height, worldHeight)

\* C2: a players_moved message leaves every stored player it does not name
\* as it was, replaces every player it names by the one supplied, and removes
\* no id.
C2_ShallowMerge ==
    [][ (lastEvent'.type = "message" /\ lastEvent'.action = "players_moved") =>
          \A m \in PlayersMovedMessages :
             (DOMAIN m.players = lastEvent'.ids /\ WsMessage(Json(m))) =>
             /\ DOMAIN players' = DOMAIN players \cup DOMAIN m.players
             /\ \A id \in DOMAIN players \ DOMAIN m.players : players'[id] = players[id]
             /\ \A id \in DOMAIN m.players : players'[id] = m.players[id]
      ]_vars

\* a players_moved message that named one stored player and not another
C2_Witness ==
    /\ lastEvent.type = "message"
    /\ lastEvent.action = "players_moved"
    /\ lastEvent.ids # {}
    /\ DOMAIN players \ lastEvent.ids # {}

\* C3: the viewport is a sub-rectangle of the world (read in the claim's
\* favour: whenever the window is no larger than the world).
C3_ViewportInWorld ==
    (viewport.width <= worldWidth /\ viewport.height <= worldHeight) =>
        /\ viewport.x >= 0
        /\ viewport.y >= 0
        /\ viewport.x + 2 * viewport.width <= 2 * worldWidth
        /\ viewport.y + 2 * viewport.height <= 2 * worldHeight

\* C4: while the local player is stored, no player_joined, players_moved or
\* player_left message takes it out of the player mapping.
C4_LocalPlayerStays ==
    [][ ( /\ HasLocal
          /\ lastEvent'.type = "message"
          /\ lastEvent'.action \in {"player_joined", "players_moved", "player_left"} )
        => myPlayerId' \in DOMAIN players'
      ]_vars

\* C7: a player_joined or players_moved message that changes the stored local
\* player's position recentres the viewport on it if no movement key is held,
\* and leaves the viewport's origin alone if one is.
C7_RecentreUnlessMoving ==
    [][ ( /\ lastEvent'.type = "message"
          /\ lastEvent'.action \in {"player_joined", "players_moved"}
          /\ HasLocal /\ HasLocal' /\ myPlayerId' = myPlayerId
          /\ <<players'[myPlayerId].x, players'[myPlayerId].y>>
                # <<players[myPlayerId].x, players[myPlayerId].y>> )
        => IF HasMovementKeys(pressedKeys)
           THEN viewport'.x = viewport.x /\ viewport'.y = viewport.y
           ELSE IsCentred(viewport', players', myPlayerId')
      ]_vars

\* C8: after a successful join_game whose snapshot holds the local player, the
\* local id is the message's, the players and avatars are the snapshot's and
\* nothing else, and the viewport is centred, clamped, on the local player.
C8_JoinAppliesSnapshot ==
    [][ (lastEvent'.type = "message" /\ lastEvent'.action = "join_game") =>
          \A m \in JoinOkMessages :
             ( /\ m.playerId \in DOMAIN m.players
               /\ DOMAIN m.players = lastEvent'.ids
               /\ WsMessage(Json(m)) ) =>
                /\ myPlayerId' = m.playerId
                /\ players' = m.players
                /\ DOMAIN avatars' = DOMAIN m.avatars
                /\ \A n \in DOMAIN m.avatars :
                      /\ avatars'[n].name = m.avatars[n].name
                      /\ DOMAIN avatars'[n].frames = DOMAIN m.avatars[n].frames
                /\ IsCentred(viewport', m.players, m.playerId)
                /\ viewport'.width = viewport.width /\ viewport'.height = viewport.height
      ]_vars

\* a successful join whose local player stands where no clamp applies, and
\* whose snapshot is all the store holds
C8_Witness ==
    /\ lastEvent.type = "message"
    /\ lastEvent.action = "join_game" /\ lastEvent.success
    /\ HasLocal
    /\ DOMAIN players = lastEvent.ids
    /\ viewport.x = 2 * players[myPlayerId].x - viewport.width
    /\ viewport.x > 0

\* the last handler ran centerViewportOnMyAvatar() past its guard
Recentred ==
    /\ lastEvent.type = "message"
    /\ \/ lastEvent.action = "join_game" /\ lastEvent.success
       \/ lastEvent.action = "players_moved" /\ myPlayerId \in lastEvent.ids
                                             /\ ~HasMovementKeys(pressedKeys)
    /\ HasLocal

\* C9: with a viewport no larger than the world, recentring leaves each axis
\* of the origin at the player's position less half the extent, clamped to
\* 0 .. world size - viewport size.
C9_ClampedOrigin ==
    (Recentred /\ viewport.width <= worldWidth /\ viewport.height <= worldHeight) =>
        /\ viewport.x = CentredOrigin(players[myPlayerId].x, viewport.width, worldWidth)
        /\ viewport.y = CentredOrigin(players[myPlayerId].y, viewport.height, worldHeight)
        /\ 0 <= viewport.x /\ viewport.x <= 2 * (worldWidth - viewport.width)
        /\ 0 <= viewport.y /\ viewport.y <= 2 * (worldHeight - viewport.height)

\* a recentring on a player in the far corner: x is held at the upper end
C9_Witness ==
    /\ Recentred
    /\ viewport.width <= worldWidth /\ viewport.height <= worldHeight
    /\ 2 * players[myPlayerId].x - viewport.width > 2 * (worldWidth - viewport.width)
    /\ viewport.x = 2 * (worldWidth - viewport.width)

\* C10: a failed join_game leaves the local id, the players, the avatars and
\* the viewport as they were.
C10_FailedJoinChangesNothing ==
    [][ (lastEvent'.type = "message" /\ lastEvent'.action = "join_game" /\ ~lastEvent'.success)
        => UNCHANGED <<myPlayerId, players, avatars, viewport>>
      ]_vars

\* a failed join handled while the store holds the local player
C10_Witness ==
    /\ lastEvent.type = "message"
    /\ lastEvent.action = "join_game" /\ ~lastEvent.success
    /\ HasLocal

(***************************************************************************)
(* The input controller's handlers, one by one.                            *)
(***************************************************************************)
\* the keys tracked as held
HeldKeys(pk) ==
    { pk[i].key : i \in { j \in 1..Len(pk) : pk[j].down } }

\* C11: a keyup for a key that is not mapped, or is mapped and not tracked as
\* held, leaves the set of held keys and the movement timer as they were and
\* sends nothing.
C11_KeyUpNotHeldIsNoOp ==
    [][ (lastEvent'.type = "keyup" /\ ~IsPressed(pressedKeys, lastEvent'.key))
        => /\ HeldKeys(pressedKeys') = HeldKeys(pressedKeys)
           /\ movementInterval' = movementInterval
           /\ sent' = <<>>
      ]_vars

\* C14: the movement timer is active exactly while a movement key is tracked
\* as held; only a keydown starts it, and only the keyup that empties the set
\* of held keys cancels it.
C14_TimerIffHeld ==
    /\ [](movementInterval # NULL <=> HasMovementKeys(pressedKeys))
    /\ [][ /\ (movementInterval = NULL /\ movementInterval' # NULL)
                => lastEvent'.type = "keydown"
           /\ (movementInterval # NULL /\ movementInterval' = NULL)
                => /\ lastEvent'.type = "keyup"
                   /\ HasMovementKeys(pressedKeys)
                   /\ ~HasMovementKeys(pressedKeys')
         ]_vars

\* the timer has run through a poll and a channel close, and a keyup that left
\* another key held
C14_Witness ==
    /\ movementInterval # NULL
    /\ ws = "CLOSED"
    /\ now >= MOVEMENT_INTERVAL
    /\ lastEvent.type = "keyup"
    /\ Len(pressedKeys) > Cardinality(HeldKeys(pressedKeys))

\* C15: a keydown that takes the held keys from none to some sends exactly one
\* move and starts the timer; a keydown of a key that is already held sends
\* nothing and leaves the timer as it is.
C15_EmitOnStart ==
    [][ lastEvent'.type = "keydown" =>
          /\ (~HasMovementKeys(pressedKeys) /\ HasMovementKeys(pressedKeys'))
                => /\ Len(sent') = 1 /\ Count(sent', "move") = 1
                   /\ movementInterval = NULL /\ movementInterval' # NULL
                   /\ pollDue' = now + POLL_INTERVAL
          /\ IsPressed(pressedKeys, lastEvent'.key)
                => /\ sent' = <<>>
                   /\ UNCHANGED <<movementInterval, pollDue>>
      ]_vars

\* C15, amended: a keydown that takes the held keys from none to some starts
\* the timer and sends exactly one move if the channel is open, and nothing if
\* it is not; a keydown of a key that is already held sends nothing and leaves
\* the timer as it is.
C15_EmitOnStartIfOpen ==
    [][ lastEvent'.type = "keydown" =>
          /\ (~HasMovementKeys(pressedKeys) /\ HasMovementKeys(pressedKeys'))
                => /\ Len(sent') = (IF ws = "OPEN" THEN 1 ELSE 0)
                   /\ Count(sent', "move") = Len(sent')
                   /\ movementInterval = NULL /\ movementInterval' # NULL
                   /\ pollDue' = now + POLL_INTERVAL
          /\ IsPressed(pressedKeys, lastEvent'.key)
                => /\ sent' = <<>>
                   /\ UNCHANGED <<movementInterval, pollDue>>
      ]_vars

\* a first keydown on an open channel: one move, the timer started
C15_Witness ==
    /\ lastEvent.type = "keydown"
    /\ ws = "OPEN"
    /\ Count(sent, "move") = 1
    /\ HeldKeys(pressedKeys) = {lastEvent.key}
    /\ movementInterval # NULL /\ pollDue = now + POLL_INTERVAL

\* C20: a move message is sent no sooner than 150 ms after the move message
\* before it (read in the claim's favour: two moves at the same reading of the
\* clock are let pass).
C20_MovesApart ==
    [][ (Count(sent', "move") > 0 /\ Len(lastMoveAt) > 0 /\ now > lastMoveAt[1])
        => now - lastMoveAt[1] >= MOVEMENT_INTERVAL
      ]_vars

(***************************************************************************)
(* Messages the client does not understand.                                *)
(***************************************************************************)
KnownActions == {"join_game", "player_joined", "players_moved", "player_left"}

\* C12: a message that JSON.parse rejects, or whose action is none of the four
\* known ones, leaves the local id, the players, the avatars and the viewport
\* as they were, and leaves the channel open for the next message.
C12_DiscardedMessage ==
    [][ (lastEvent'.type = "message" /\ lastEvent'.action \notin KnownActions)
        => /\ UNCHANGED <<myPlayerId, players, avatars, viewport>>
           /\ ws' = "OPEN"
      ]_vars

\* an undecodable message arrived while the store held the local player
C12_Witness ==
    /\ lastEvent.type = "message"
    /\ lastEvent.action = "<undecodable>"
    /\ HasLocal
    /\ ws = "OPEN"

(***************************************************************************)
(* The renderer's properties.                                              *)
(***************************************************************************)
\* C13: the render loop stays scheduled whatever the store holds: no frame
\* raises.
C13_LoopAlive ==
    loopAlive

\* the frame slot a player's facing and animation frame select, or "none"
FrameSlot(player, avs) ==
    IF player.avatar \notin DOMAIN avs THEN "none"
    ELSE LET frames == avs[player.avatar].frames
             direction == IF player.facing = "west" THEN "east" ELSE player.facing
         IN  IF direction \notin DOMAIN frames THEN "none"
             ELSE IF player.animationFrame + 1 \notin 1..Len(frames[direction]) THEN "none"
             ELSE frames[direction][player.animationFrame + 1]

\* the screen position of a player is more than the margin outside the canvas
BeyondMargin(player, vp) ==
    LET screenX2 == 2 * player.x - vp.x
        screenY2 == 2 * player.y - vp.y
    IN  \/ screenX2 < -2 * CULL_MARGIN \/ screenX2 > 2 * vp.width + 2 * CULL_MARGIN
        \/ screenY2 < -2 * CULL_MARGIN \/ screenY2 > 2 * vp.height + 2 * CULL_MARGIN

\* the avatar drawImage calls a draw() made for a player
DrawCalls(drawn, id) ==
    Cardinality({ k \in 1..Len(drawn.calls) : drawn.calls[k].id = id })

\* C16: a draw() never draws a frame slot that holds a string or an Image that
\* is still loading, and does not throw at a player whose slot is one.
C16_NoUnloadedDraw ==
    [][ lastEvent'.type \in {"frame", "resize"} =>
          /\ \A k \in 1..Len(lastDraw'.calls) : lastDraw'.calls[k].image = "complete"
          /\ \A id \in DOMAIN players :
                FrameSlot(players[id], avatars) \in {"data", "text", "loading"}
                   => /\ DrawCalls(lastDraw', id) = 0
                      /\ lastDraw'.raised # id
      ]_vars

\* a frame that drew one player and skipped another, in view, whose Image was
\* still loading
C16_Witness ==
    /\ lastEvent.type = "frame"
    /\ Len(lastDraw.calls) = 1
    /\ lastDraw.raised = NULL
    /\ \E id \in DOMAIN players :
          /\ FrameSlot(players[id], avatars) = "loading"
          /\ ~BeyondMargin(players[id], viewport)

\* C17: in every state a further preloadAvatarImages() would make no Image and
\* change no frame slot; the one a player_joined runs leaves the slots of the
\* avatars it did not bring as they are.
C17_IdempotentPreload ==
    /\ [](RawSlots(avatars) = {} /\ preloadAvatarImages(avatars) = avatars)
    /\ [][ (lastEvent'.type = "message" /\ lastEvent'.action = "player_joined") =>
             \A m \in RenderJoinedMessages : WsMessage(Json(m)) =>
                \A n \in DOMAIN avatars \ {m.avatar.name} :
                   n \in DOMAIN avatars' /\ avatars'[n] = avatars[n]
         ]_vars

\* a player_joined brought "a2" after a frame of "a1" had been decoded
C17_Witness ==
    /\ lastEvent.type = "message"
    /\ lastEvent.action = "player_joined"
    /\ DOMAIN avatars = {"a1", "a2"}
    /\ \E d \in DOMAIN avatars["a1"].frames : avatars["a1"].frames[d][1] = "complete"
    /\ avatars["a2"].frames["east"][1] = "loading"

\* C18: in a frame, a player more than the margin outside the canvas gets no
\* avatar drawImage call, and a player within the margin whose frame is loaded
\* gets exactly one.
C18_CullingAndDrawing ==
    [][ lastEvent'.type = "frame" =>
          \A id \in DOMAIN players :
             /\ BeyondMargin(players[id], viewport) => DrawCalls(lastDraw', id) = 0
             /\ (~BeyondMargin(players[id], viewport)
                   /\ FrameSlot(players[id], avatars) = "complete")
                  => DrawCalls(lastDraw', id) = 1
      ]_vars

\* every particle of a trail is younger than the lifetime at time t
AllYoung(trails, t) ==
    \A k \in 1..Len(trails) : t - trails[k] < trailLifetime

\* a draw() now would reach the local player and find it moving
LocalLeavesTrail ==
    /\ worldImageComplete
    /\ HasLocal
    /\ players[myPlayerId].isMoving
    /\ players[myPlayerId].avatar \in DOMAIN avatars
    /\ ~BeyondMargin(players[myPlayerId], viewport)
    /\ playerOrder[1] = myPlayerId

\* C19: the trail never holds more than maxTrailLength particles; a frame
\* leaves no particle older than the lifetime; a frame that appends to a full
\* trail of young particles removes the oldest one.
C19_TrailBounded ==
    /\ [](Len(movementTrails) <= maxTrailLength)
    /\ [][ lastEvent'.type = "frame" =>
             /\ \A k \in 1..Len(movementTrails') : now - movementTrails'[k] <= trailLifetime
             /\ ( /\ Len(movementTrails) = maxTrailLength
                  /\ AllYoung(movementTrails, now)
                  /\ LocalLeavesTrail )
                => movementTrails' = Append(Tail(movementTrails), now)
         ]_vars

\* a frame has appended to a full trail: ten particles, a frame apart, the
\* oldest later than the first that can have been left
C19_Witness ==
    /\ lastEvent.type = "frame"
    /\ Len(movementTrails) = maxTrailLength
    /\ movementTrails[maxTrailLength] = now
    /\ movementTrails[1] = now - (maxTrailLength - 1) * FrameInterval
    /\ movementTrails[1] > 0

====
